---------------------------- MODULE Spec2Model ----------------------------
(***************************************************************************)
(* A model of the Face-Morphing core (src/Morphing.py): the frame-sequence *)
(* generator Blender.generateMorphVideo, the affine fit Affine.__init__ /  *)
(* Affine._CreateMatrix, the masked inverse warp Affine.transform and the  *)
(* frame blender Blender.getBlendedImage.                                  *)
(*                                                                         *)
(* Numbers: the code computes in IEEE doubles; the model computes in exact *)
(* rationals (records [n, d], d > 0, in lowest terms).                     *)
(***************************************************************************)
EXTENDS Integers, Sequences, FiniteSets, TLC

VARIABLES
    \* ---- Blender.generateMorphVideo (one call, statement by statement)
    pc,               \* position inside generateMorphVideo
    sequenceLength,   \* argument
    includeReversed,  \* argument
    imageList,        \* local list of frames
    fileList,         \* local list of file paths
    files,            \* the file system under targetFolderPath: path -> content
    i,                \* loop variable of the in-between loop
    alpha,            \* local accumulator (a rational)
    seqNum,           \* sequence number of the reversed pass
    revPos,           \* position of reversed(imageList)'s iterator
    writer,           \* frames appended to morph.mp4, in order
    widx,             \* position of the iterator over fileList
    raised,           \* the exception that ended the call, or "none"
    \* ---- the build the program runs on
    fpu,              \* how the build's floating point settles what IEEE rounding decides
    \* ---- Affine(source, destination)
    source,           \* argument
    destination,      \* argument
    affine,           \* the constructed object, or the exception raised
    \* ---- Blender / ColorBlender
    blender,          \* the session object, or the exception its constructor raised
    returned,         \* alpha -> what the last getBlendedImage(alpha) returned
    repeated,         \* whether some alpha was passed to getBlendedImage twice
    \* ---- Affine.transform(sourceImage, destinationImage)
    warp,             \* the Affine object, the two arrays, and the call's outcome
    \* ---- MorphingConsumer (the point-editing window)
    app               \* the attributes of the window and the point files on disk

videoVars == <<pc, sequenceLength, includeReversed, imageList, fileList, files,
               i, alpha, seqNum, revPos, writer, widx, raised>>

affineVars == <<source, destination, affine>>

blenderVars == <<blender, returned, repeated>>

vars == <<videoVars, fpu, affineVars, blenderVars, warp, app>>

---------------------------------------------------------------------------
(* Bounds of the model *)

\* largest sequenceLength tried
MaxSeqLen == 5
\* sequenceLength is drawn from -MaxNegSeqLen .. MaxSeqLen
MaxNegSeqLen == 1

---------------------------------------------------------------------------
(* Exact rational arithmetic *)

Abs(x) == IF x < 0 THEN -x ELSE x

RECURSIVE GCD(_, _)
GCD(a, b) == IF b = 0 THEN a ELSE GCD(b, a % b)

\* the rational n/d (d # 0) in lowest terms with a positive denominator
Rat(n, d) ==
    LET g == GCD(Abs(n), Abs(d))
        s == IF d < 0 THEN -1 ELSE 1
    IN  [n |-> (s * n) \div g, d |-> (s * d) \div g]

RInt(k) == [n |-> k, d |-> 1]
\* sums and products, the common factors taken out first to keep the
\* intermediate integers small
RAdd(a, b) ==
    IF a.d = 1 /\ b.d = 1 THEN [n |-> a.n + b.n, d |-> 1] ELSE
    LET g == GCD(a.d, b.d)
    IN  Rat(a.n * (b.d \div g) + b.n * (a.d \div g), (a.d \div g) * b.d)
RSub(a, b) == RAdd(a, [n |-> -b.n, d |-> b.d])
RMul(a, b) ==
    IF a.d = 1 /\ b.d = 1 THEN [n |-> a.n * b.n, d |-> 1] ELSE
    LET g1 == GCD(Abs(a.n), b.d)
        g2 == GCD(Abs(b.n), a.d)
    IN  Rat((a.n \div g1) * (b.n \div g2), (a.d \div g2) * (b.d \div g1))
RDiv(a, b) == Rat(a.n * b.d, a.d * b.n)
RLt(a, b) == a.n * b.d < b.n * a.d
RLe(a, b) == a.n * b.d <= b.n * a.d
RZero == RInt(0)
ROne == RInt(1)

---------------------------------------------------------------------------
(* Blender.generateMorphVideo *)

\* self.startImage and self.endImage of the session, as opaque frames
startFrame == [kind |-> "start"]
endFrame == [kind |-> "end"]

\* the frame self.getBlendedImage(a) returns; in this part of the model a
\* blended frame is identified by the alpha it was computed with
BlendedFrame(a) == [kind |-> "blend", alpha |-> a]

DigitChars == <<"0", "1", "2", "3", "4", "5", "6", "7", "8", "9">>

RECURSIVE Digits(_)
Digits(n) ==
    IF n < 10 THEN <<DigitChars[n + 1]>>
    ELSE Append(Digits(n \div 10), DigitChars[(n % 10) + 1])

RECURSIVE ZeroPad(_, _)
ZeroPad(ds, width) == IF Len(ds) >= width THEN ds ELSE ZeroPad(<<"0">> \o ds, width)

\* '{:03d}'.format(number): sign-aware zero padding to a minimum width of 3
Format03d(number) ==
    IF number < 0 THEN <<"-">> \o ZeroPad(Digits(-number), 2)
    ELSE ZeroPad(Digits(number), 3)

\* Blender._FrameName
FrameName(number) == <<"frame">> \o Format03d(number) \o <<".jpg">>

\* targetFolderPath + '/' + self._FrameName(number)
FramePath(number) == <<"targetFolderPath", "/">> \o FrameName(number)

\* Blender._SaveImage: the array converted to RGB and encoded as the file
\* format the extension names
SaveImage(npArray) == [format |-> "jpg", mode |-> "RGB", image |-> npArray]

\* io.imread of a file _SaveImage wrote
Imread(file) == [mode |-> file.mode, image |-> file.image]

\* the file system after image.save(fileName)
WriteFile(fs, fileName, content) ==
    [p \in (DOMAIN fs) \cup {fileName} |-> IF p = fileName THEN content ELSE fs[p]]

\* the denominator of increment = 1.0 / ((sequenceLength - 2) + 1)
IncrementDenominatorOffByOne(n) == n
IncrementDenominator(n) == (n - 2) + 1

\* the number the i-th in-between frame (i = 0, 1, ...) is saved under
BetweenFrameNumber(k) == k + 1

SeqLens == (0 - MaxNegSeqLen) .. MaxSeqLen

VideoIdle ==
    /\ pc = "idle"
    /\ sequenceLength = 0
    /\ includeReversed = FALSE
    /\ imageList = <<>>
    /\ fileList = <<>>
    /\ files = <<>>
    /\ i = 0
    /\ alpha = RZero
    /\ seqNum = 0
    /\ revPos = 0
    /\ writer = <<>>
    /\ widx = 0
    /\ raised = "none"

\* no Affine has been constructed
AffineIdle ==
    /\ source = <<>>
    /\ destination = <<>>
    /\ affine = [state |-> "none"]

\* no Blender has been constructed
BlenderIdle ==
    /\ blender = [state |-> "none"]
    /\ returned = <<>>
    /\ repeated = FALSE

\* no Affine.transform call is under way
WarpIdle == warp = [state |-> "none"]

\* no window has been created
AppIdle == app = [state |-> "none"]

VideoInit ==
    /\ VideoIdle
    /\ AffineIdle
    /\ BlenderIdle
    /\ WarpIdle
    /\ AppIdle
    /\ fpu = [singular |-> "detected", nan |-> 0]

\* the call itself; lines 161-170 (the target folder is taken to exist or to
\* be created)
Call ==
    /\ pc = "idle"
    /\ \E n \in SeqLens, r \in BOOLEAN :
          /\ sequenceLength' = n
          /\ includeReversed' = r
    /\ imageList' = <<>>
    /\ fileList' = <<>>
    /\ pc' = "saveStart"
    /\ UNCHANGED <<files, i, alpha, seqNum, revPos, writer, widx, raised>>

\* lines 173-175
SaveStart ==
    /\ pc = "saveStart"
    /\ files' = WriteFile(files, FramePath(1), SaveImage(startFrame))
    /\ imageList' = Append(imageList, startFrame)
    /\ fileList' = Append(fileList, FramePath(1))
    /\ pc' = "increment"
    /\ UNCHANGED <<sequenceLength, includeReversed, i, alpha, seqNum, revPos,
                   writer, widx, raised>>

\* lines 180-181: a float division by zero raises ZeroDivisionError
ComputeIncrement ==
    /\ pc = "increment"
    /\ IF IncrementDenominator(sequenceLength) = 0
         THEN /\ raised' = "ZeroDivisionError"
              /\ pc' = "raised"
              /\ UNCHANGED <<alpha, i>>
         ELSE /\ alpha' = RZero
              /\ i' = 0
              /\ pc' = "loop"
              /\ UNCHANGED raised
    /\ UNCHANGED <<sequenceLength, includeReversed, imageList, fileList, files,
                   seqNum, revPos, writer, widx>>

\* lines 182-191: one iteration of for i in range(sequenceLength - 2)
LoopBody ==
    /\ pc = "loop"
    /\ i < sequenceLength - 2
    /\ LET a == RAdd(alpha, Rat(1, IncrementDenominator(sequenceLength)))
           image == BlendedFrame(a)
           path == FramePath(BetweenFrameNumber(i))
       IN  /\ alpha' = a
           /\ files' = WriteFile(files, path, SaveImage(image))
           /\ imageList' = Append(imageList, image)
           /\ fileList' = Append(fileList, path)
    /\ i' = i + 1
    /\ UNCHANGED <<pc, sequenceLength, includeReversed, seqNum, revPos, writer,
                   widx, raised>>

\* lines 193-200: the loop is over; the end image is saved
SaveEnd ==
    /\ pc = "loop"
    /\ ~(i < sequenceLength - 2)
    /\ files' = WriteFile(files, FramePath(sequenceLength), SaveImage(endFrame))
    /\ imageList' = Append(imageList, endFrame)
    /\ fileList' = Append(fileList, FramePath(sequenceLength))
    /\ IF includeReversed
         THEN /\ seqNum' = sequenceLength + 1
              /\ revPos' = Len(imageList) + 1
              /\ pc' = "reversed"
         ELSE /\ pc' = "openWriter"
              /\ UNCHANGED <<seqNum, revPos>>
    /\ UNCHANGED <<sequenceLength, includeReversed, i, alpha, writer, widx, raised>>

\* lines 202-206: one iteration of for image in reversed(imageList)
ReversedBody ==
    /\ pc = "reversed"
    /\ revPos >= 1
    /\ files' = WriteFile(files, FramePath(seqNum), SaveImage(imageList[revPos]))
    /\ fileList' = Append(fileList, FramePath(seqNum))
    /\ seqNum' = seqNum + 1
    /\ revPos' = revPos - 1
    /\ pc' = IF revPos = 1 THEN "openWriter" ELSE "reversed"
    /\ UNCHANGED <<sequenceLength, includeReversed, imageList, i, alpha, writer,
                   widx, raised>>

\* line 209
OpenWriter ==
    /\ pc = "openWriter"
    /\ writer' = <<>>
    /\ widx' = 1
    /\ pc' = "write"
    /\ UNCHANGED <<sequenceLength, includeReversed, imageList, fileList, files,
                   i, alpha, seqNum, revPos, raised>>

\* lines 212-213: one iteration of for im in fileList
AppendData ==
    /\ pc = "write"
    /\ widx <= Len(fileList)
    /\ writer' = Append(writer, Imread(files[fileList[widx]]))
    /\ widx' = widx + 1
    /\ UNCHANGED <<pc, sequenceLength, includeReversed, imageList, fileList,
                   files, i, alpha, seqNum, revPos, raised>>

\* line 216
CloseWriter ==
    /\ pc = "write"
    /\ widx > Len(fileList)
    /\ pc' = "done"
    /\ UNCHANGED <<sequenceLength, includeReversed, imageList, fileList, files,
                   i, alpha, seqNum, revPos, writer, widx, raised>>

VideoNext ==
    /\ \/ Call
       \/ SaveStart
       \/ ComputeIncrement
       \/ LoopBody
       \/ SaveEnd
       \/ ReversedBody
       \/ OpenWriter
       \/ AppendData
       \/ CloseWriter
    /\ UNCHANGED <<fpu, affineVars, blenderVars, warp, app>>

SpecVideo == VideoInit /\ [][VideoNext]_vars

---------------------------------------------------------------------------
(* Properties of Blender.generateMorphVideo *)

\* the file the call wrote for a frame, as io.imread returns it
Stored(image) == Imread(SaveImage(image))

\* C1: for sequenceLength N >= 2, when the call has returned, the N forward
\* frames were written under N pairwise distinct names, position k of the
\* sequence under frame{k:03d}.jpg, and the file of position k holds frame k
\* (no later frame of the call overwrote it).
C1_ForwardFramesPersisted ==
    (pc = "done" /\ sequenceLength >= 2) =>
        /\ \A k, m \in 1..sequenceLength : k # m => fileList[k] # fileList[m]
        /\ \A k \in 1..sequenceLength :
              /\ fileList[k] = FramePath(k)
              /\ FramePath(k) \in DOMAIN files
              /\ files[FramePath(k)] = SaveImage(imageList[k])

\* C2: for sequenceLength N >= 2, the j-th frame appended to the video writer
\* is the j-th frame of the sequence: video frame 1 is the start image and
\* video frame N is the end image.
C2_VideoInSequenceOrder ==
    (pc = "done" /\ sequenceLength >= 2) =>
        /\ Len(writer) >= sequenceLength
        /\ \A j \in 1..sequenceLength : writer[j] = Stored(imageList[j])
        /\ writer[1] = Stored(startFrame)
        /\ writer[sequenceLength] = Stored(endFrame)

\* C3: for sequenceLength N >= 2 and includeReversed = false, the call
\* generates exactly N frames: the start image, then the frames
\* getBlendedImage returns at alpha = k/(N-1) for k = 1..N-2 in increasing k,
\* each alpha strictly between 0 and 1, then the end image; N paths are
\* listed and N frames are appended to the video.
C3_SequenceAlphas ==
    (pc \in {"openWriter", "write", "done"} /\ sequenceLength >= 2 /\ ~includeReversed) =>
        /\ Len(imageList) = sequenceLength
        /\ Len(fileList) = sequenceLength
        /\ imageList[1] = startFrame
        /\ imageList[sequenceLength] = endFrame
        /\ \A k \in 1..(sequenceLength - 2) :
              /\ imageList[k + 1] = BlendedFrame(Rat(k, sequenceLength - 1))
              /\ RLt(RZero, imageList[k + 1].alpha)
              /\ RLt(imageList[k + 1].alpha, ROne)
        /\ (pc = "done" => Len(writer) = sequenceLength)

\* C3 witness: sequenceLength = 5 without the reversed pass has returned, the
\* frames having alpha 0, 1/4, 1/2, 3/4, 1.
C3_Witness ==
    /\ pc = "done"
    /\ sequenceLength = 5
    /\ ~includeReversed
    /\ imageList = <<startFrame, BlendedFrame(Rat(1, 4)), BlendedFrame(Rat(1, 2)),
                     BlendedFrame(Rat(3, 4)), endFrame>>

\* C4: for sequenceLength N >= 2 and includeReversed = true, the call yields
\* 2N frames numbered 1..2N, and frame N+j has the content of frame N+1-j
\* for every j in 1..N.
C4_ReversedPalindrome ==
    (pc = "done" /\ sequenceLength >= 2 /\ includeReversed) =>
        /\ Len(fileList) = 2 * sequenceLength
        /\ Len(writer) = 2 * sequenceLength
        /\ \A m \in 1..(2 * sequenceLength) :
              /\ fileList[m] = FramePath(m)
              /\ FramePath(m) \in DOMAIN files
        /\ \A j \in 1..sequenceLength :
              /\ files[FramePath(sequenceLength + j)] = files[FramePath(sequenceLength + 1 - j)]
              /\ writer[sequenceLength + j] = writer[sequenceLength + 1 - j]

\* C5: for sequenceLength < 2 the call ends by raising InvalidSequenceLength,
\* and has written no frame file and no video frame.
C5_ShortSequenceRejected ==
    (pc \in {"done", "raised"} /\ sequenceLength < 2) =>
        /\ pc = "raised"
        /\ raised = "InvalidSequenceLength"
        /\ DOMAIN files = {}
        /\ writer = <<>>

---------------------------------------------------------------------------
(* numpy.linalg.solve and numpy.linalg.inv (LAPACK gesv)                    *)
(*                                                                         *)
(* gesv factors the matrix by Gaussian elimination with partial pivoting   *)
(* and reports a singular matrix (numpy raises LinAlgError) only when a    *)
(* computed pivot is exactly 0.0.  An entry of the elimination is a record *)
(* [v, x]: v its exact value, x whether the doubles computed it without    *)
(* rounding (all operands exact and the multiplier a dyadic rational).  A  *)
(* pivot column whose exact values are all zero but which was computed     *)
(* with rounding is 0.0 or a tiny nonzero number depending on the rounding *)
(* of the build (fpu.singular); in the latter case the factorisation goes  *)
(* on and the result holds finite numbers unrelated to the system.         *)

RECURSIVE PowerOfTwo(_)
PowerOfTwo(d) == d = 1 \/ (d % 2 = 0 /\ PowerOfTwo(d \div 2))

\* representable without rounding (the magnitudes of the model are small)
IsDyadic(r) == PowerOfTwo(r.d)

RAbs(r) == [n |-> Abs(r.n), d |-> r.d]

Exact(r) == [v |-> r, x |-> TRUE]

IsExactZero(e) == e.v.n = 0 /\ e.x

\* [A | B] with every entry exact
Augment(A, B) == [r \in DOMAIN A |-> [c \in 1..(Len(A[r]) + Len(B[r])) |->
                    IF c <= Len(A[r]) THEN Exact(A[r][c]) ELSE Exact(B[r][c - Len(A[r])])]]

SwapRows(M, a, b) ==
    [r \in DOMAIN M |-> IF r = a THEN M[b] ELSE IF r = b THEN M[a] ELSE M[r]]

\* idamax: the first row at or below k with the largest |entry| in column k
RECURSIVE PivotRowFrom(_, _, _, _)
\* the scan of rows r.. of column k, best being the row of the largest
\* |entry| so far; a later row replaces it only when strictly larger
PivotRowFrom(M, k, r, best) ==
    IF r > Len(M) THEN best
    ELSE PivotRowFrom(M, k, r + 1,
            IF RLt(RAbs(M[best][k].v), RAbs(M[r][k].v)) THEN r ELSE best)

PivotRow(M, k) == PivotRowFrom(M, k, k + 1, k)

\* row := row - (row[k] / piv[k]) * piv
EliminateRow(row, piv, k) ==
    LET l == RDiv(row[k].v, piv[k].v)
        lx == row[k].x /\ piv[k].x /\ IsDyadic(l)
    IN  [c \in DOMAIN row |->
            IF c < k THEN row[c]
            ELSE IF c = k THEN Exact(RZero)
            ELSE IF IsExactZero(row[k]) \/ IsExactZero(piv[c]) THEN row[c]
            ELSE [v |-> RSub(row[c].v, RMul(l, piv[c].v)),
                  x |-> row[c].x /\ lx /\ piv[c].x]]

\* the factorisation from column k on: "ok" with the upper triangular system,
\* "singular" at an exactly zero pivot column, "roundoff" at a pivot column
\* that is zero only up to rounding
RECURSIVE Factor(_, _)
Factor(M, k) ==
    IF k > Len(M) THEN [status |-> "ok", U |-> M]
    ELSE LET p == PivotRow(M, k)
         IN  IF M[p][k].v.n = 0
               THEN IF \A r \in k..Len(M) : M[r][k].x
                      THEN [status |-> "singular"]
                      ELSE [status |-> "roundoff"]
               ELSE LET S == SwapRows(M, k, p)
                        E == [r \in DOMAIN S |->
                                IF r <= k THEN S[r] ELSE EliminateRow(S[r], S[k], k)]
                    IN  Factor(E, k + 1)

RECURSIVE RowDot(_, _, _, _)
\* sum over c in from..Len(x) of row[c] * x[c]
RowDot(row, x, from, to) ==
    IF from > to THEN RZero
    ELSE RAdd(RMul(row[from].v, x[from]), RowDot(row, x, from + 1, to))

RECURSIVE BackSubstitute(_, _, _, _)
\* solves U x = column col of the augmented part, from row r upwards
BackSubstitute(U, col, r, x) ==
    IF r = 0 THEN x
    ELSE LET n == Len(U)
             s == RSub(U[r][col].v, RowDot(U[r], x, r + 1, n))
         IN  BackSubstitute(U, col, r - 1, [x EXCEPT ![r] = RDiv(s, U[r][r].v)])

\* the content of an array whose numbers a missed singularity left undefined
Undefined == <<>>

\* a sample that is not a number
NaN == <<>>

\* numpy.linalg.solve(A, B) for an n x n matrix A and an n x m matrix B
LinalgSolve(A, B) ==
    LET n == Len(A)
        f == Factor(Augment(A, B), 1)
    IN  IF f.status = "singular" \/ (f.status = "roundoff" /\ fpu.singular = "detected")
          THEN [status |-> "LinAlgError"]
        ELSE IF f.status = "roundoff"
          THEN [status |-> "undefined"]
        ELSE LET X == [col \in 1..Len(B[1]) |->
                          BackSubstitute(f.U, n + col, n, [r \in 1..n |-> RZero])]
             IN  [status |-> "ok",
                  X |-> [r \in 1..n |-> [c \in 1..Len(B[1]) |-> X[c][r]]]]

Identity(n) == [r \in 1..n |-> [c \in 1..n |-> IF r = c THEN ROne ELSE RZero]]

\* numpy.linalg.inv(M); M may hold the numbers a missed singularity left
LinalgInv(M) ==
    IF M = Undefined
      THEN IF fpu.singular = "detected" THEN [status |-> "LinAlgError"]
           ELSE [status |-> "undefined"]
      ELSE LinalgSolve(M, Identity(Len(M)))

---------------------------------------------------------------------------
(* class Affine *)

\* a numpy array of float64 holding the given rows
NdArray(rows) == [type |-> "ndarray", dtype |-> "float64", rows |-> rows]

\* array.shape == (3, 2)
Is3x2(array) == Len(array.rows) = 3 /\ \A r \in 1..3 : Len(array.rows[r]) = 2

\* the 6 x 6 array A of _CreateMatrix; src[i][1], src[i][2] are source[i-1, 0],
\* source[i-1, 1]
CreateMatrixA(src) ==
    LET O == RZero
        I == ROne
    IN  << <<src[1][1], src[1][2], I, O, O, O>>,
           <<O, O, O, src[1][1], src[1][2], I>>,
           <<src[2][1], src[2][2], I, O, O, O>>,
           <<O, O, O, src[2][1], src[2][2], I>>,
           <<src[3][1], src[3][2], I, O, O, O>>,
           <<O, O, O, src[3][1], src[3][2], I>> >>

\* the 6 x 1 array b of _CreateMatrix
CreateMatrixB(dst) ==
    << <<dst[1][1]>>, <<dst[1][2]>>, <<dst[2][1]>>, <<dst[2][2]>>,
       <<dst[3][1]>>, <<dst[3][2]>> >>

\* the 3 x 3 array built from the solution H (H[k][1] is H[k-1, 0])
MatrixFromHTransposed(H) ==
    << <<H[1][1], H[4][1], H[3][1]>>,
       <<H[2][1], H[5][1], H[6][1]>>,
       <<RZero, RZero, ROne>> >>
MatrixFromH(H) ==
    << <<H[1][1], H[2][1], H[3][1]>>,
       <<H[4][1], H[5][1], H[6][1]>>,
       <<RZero, RZero, ROne>> >>

\* Affine._CreateMatrix
CreateMatrix(src, dst) ==
    LET H == LinalgSolve(CreateMatrixA(src), CreateMatrixB(dst))
    IN  IF H.status = "ok" THEN [status |-> "ok", matrix |-> MatrixFromH(H.X)]
        ELSE IF H.status = "undefined" THEN [status |-> "ok", matrix |-> Undefined]
        ELSE [status |-> "LinAlgError"]

\* Affine.__init__: the object, or the exception it raises
AffineNew(src, dst) ==
    IF src.type # "ndarray" \/ dst.type # "ndarray" THEN [state |-> "raised", error |-> "ValueError"]
    ELSE IF ~Is3x2(src) \/ ~Is3x2(dst) THEN [state |-> "raised", error |-> "ValueError"]
    ELSE IF src.dtype # "float64" \/ dst.dtype # "float64"
      THEN [state |-> "raised", error |-> "ValueError"]
    ELSE LET m == CreateMatrix(src.rows, dst.rows)
         IN  IF m.status # "ok" THEN [state |-> "raised", error |-> m.status]
             ELSE LET inv == LinalgInv(m.matrix)
                  IN  IF inv.status = "LinAlgError"
                        THEN [state |-> "raised", error |-> "LinAlgError"]
                      ELSE [state |-> "object",
                            source |-> src.rows,
                            destination |-> dst.rows,
                            matrix |-> m.matrix,
                            inverseMatrix |-> IF inv.status = "ok" THEN inv.X
                                              ELSE Undefined]

\* matrix . (x, y, 1)
MatVec(M, x, y) ==
    [r \in 1..3 |-> RAdd(RAdd(RMul(M[r][1], x), RMul(M[r][2], y)), M[r][3])]

---------------------------------------------------------------------------
(* Affine(source, destination) on triangles with small integer coordinates *)

\* source coordinates are drawn from 0..MaxCoord
MaxCoord == 3

Point(x, y) == <<RInt(x), RInt(y)>>

GridPoints == {<<x, y>> : x \in 0..MaxCoord, y \in 0..MaxCoord}

\* p before or equal to q, lexicographically
LexLe(p, q) == p[1] < q[1] \/ (p[1] = q[1] /\ p[2] <= q[2])

\* the source triangles: any three grid points, listed in lexicographic
\* order (the destination takes every order)
SourceTriangles ==
    {<<Point(p[1], p[2]), Point(q[1], q[2]), Point(r[1], r[2])>> :
        <<p, q, r>> \in {t \in GridPoints \X GridPoints \X GridPoints :
                            LexLe(t[1], t[2]) /\ LexLe(t[2], t[3])}}

DestinationPoints == {Point(0, 0), Point(2, 0), Point(1, 2)}

DestinationTriangles == DestinationPoints \X DestinationPoints \X DestinationPoints

\* arguments Affine.__init__ rejects: a list, an array of another shape, an
\* array of integers
MalformedArrays ==
    LET t == <<Point(0, 0), Point(1, 0), Point(0, 1)>>
    IN  {[type |-> "list", dtype |-> "float64", rows |-> t],
         NdArray(<<Point(0, 0), Point(1, 0)>>),
         [type |-> "ndarray", dtype |-> "int64", rows |-> t]}

SourceArrays == {NdArray(t) : t \in SourceTriangles} \cup MalformedArrays

DestinationArrays == {NdArray(t) : t \in DestinationTriangles} \cup MalformedArrays

\* a float64 array of shape (3, 2)
IsTriangleArray(a) == a.type = "ndarray" /\ Is3x2(a) /\ a.dtype = "float64"

\* what the build's rounding makes of a zero pivot computed with rounding
FpuSingular == {"detected", "missed"}

AffineInit ==
    /\ VideoIdle
    /\ AffineIdle
    /\ BlenderIdle
    /\ WarpIdle
    /\ AppIdle
    /\ fpu \in [singular : FpuSingular, nan : {0}]

\* Affine(source, destination)
NewAffine ==
    /\ affine.state = "none"
    /\ \E src \in SourceArrays, dst \in DestinationArrays :
          /\ source' = src
          /\ destination' = dst
          /\ affine' = AffineNew(src, dst)
    /\ UNCHANGED <<videoVars, fpu, blenderVars, warp, app>>

AffineNext == NewAffine

SpecAffine == AffineInit /\ [][AffineNext]_vars

Spec == SpecVideo

\* twice the signed area of the triangle p, q, r
Orient(p, q, r) ==
    RSub(RMul(RSub(q[1], p[1]), RSub(r[2], p[2])),
         RMul(RSub(q[2], p[2]), RSub(r[1], p[1])))

Collinear(t) == Orient(t[1], t[2], t[3]) = RZero

\* C9: an Affine constructed from a collinear (zero area) source triangle
\* raises the solver's singular-matrix error whatever the destination; no
\* Affine object with an undefined matrix or inverse is returned.
C9_CollinearSourceRaises ==
    (affine.state # "none") =>
        /\ (IsTriangleArray(source) /\ IsTriangleArray(destination) /\ Collinear(source.rows))
              => (affine.state = "raised" /\ affine.error = "LinAlgError")
        /\ affine.state = "object" =>
              (affine.matrix # Undefined /\ affine.inverseMatrix # Undefined)

\* C10: for non-degenerate source and destination triangles the matrix maps
\* source vertex i to destination vertex i, in homogeneous coordinates, and
\* its last row is (0, 0, 1).
C10_MatrixMapsVertices ==
    (/\ affine.state # "none"
     /\ IsTriangleArray(source) /\ IsTriangleArray(destination)
     /\ ~Collinear(source.rows) /\ ~Collinear(destination.rows)) =>
        /\ affine.state = "object"
        /\ affine.matrix[3] = <<RZero, RZero, ROne>>
        /\ \A k \in 1..3 :
              MatVec(affine.matrix, source.rows[k][1], source.rows[k][2])
                 = <<destination.rows[k][1], destination.rows[k][2], ROne>>

\* C10 witness: an Affine between two triangles of non-zero area, neither a
\* translate of the other, was constructed.
C10_Witness ==
    /\ affine.state = "object"
    /\ source = NdArray(<<Point(0, 1), Point(2, 0), Point(3, 3)>>)
    /\ destination = NdArray(<<Point(1, 2), Point(0, 0), Point(2, 0)>>)
    /\ affine.matrix # Identity(3)

---------------------------------------------------------------------------
(* Affine.transform and Affine._Mask *)

\* the pixels of an h x w array, as <<row, column>>
Pixels(h, w) == (0..(h - 1)) \X (0..(w - 1))

\* np.array(Image.new(mode, (w, h), 0)): channels is 1 for 'L', 3 for 'RGB'
BlankImage(h, w, channels) ==
    [type |-> "ndarray", h |-> h, w |-> w,
     px |-> [rc \in Pixels(h, w) |-> [ch \in 1..channels |-> 0]]]

RSign(r) == IF r.n > 0 THEN 1 ELSE IF r.n < 0 THEN -1 ELSE 0

RMin3(a, b, c) == LET m == IF RLe(a, b) THEN a ELSE b IN IF RLe(m, c) THEN m ELSE c
RMax3(a, b, c) == LET m == IF RLe(a, b) THEN b ELSE a IN IF RLe(m, c) THEN c ELSE m

\* p lies in the closed triangle t: the polygon fill with its outline
InTriangle(p, t) ==
    LET d1 == RSign(Orient(t[1], t[2], p))
        d2 == RSign(Orient(t[2], t[3], p))
        d3 == RSign(Orient(t[3], t[1], p))
    IN  /\ (d1 >= 0 /\ d2 >= 0 /\ d3 >= 0) \/ (d1 <= 0 /\ d2 <= 0 /\ d3 <= 0)
        /\ \A k \in 1..2 :
              /\ RLe(RMin3(t[1][k], t[2][k], t[3][k]), p[k])
              /\ RLe(p[k], RMax3(t[1][k], t[2][k], t[3][k]))

\* Affine._Mask: the pixels <<row, column>> of the destination image that
\* ImageDraw.polygon(vertices, outline=255, fill=255) sets; a vertex is (x, y)
\* with x the column and y the row
Mask(aff, destinationImage) ==
    {rc \in Pixels(destinationImage.h, destinationImage.w) :
        InTriangle(Point(rc[2], rc[1]), aff.destination)}

\* the largest integer <= r, for r >= 0
Floor(r) == r.n \div r.d

\* np.round: to the nearest integer, a tie to the even one
RoundHalfEven(r) ==
    LET f == Floor(r)
        twice == RSub(RMul(RInt(2), r), RInt(2 * f))
    IN  IF RLt(twice, ROne) THEN f
        ELSE IF RLt(ROne, twice) THEN f + 1
        ELSE IF f % 2 = 0 THEN f ELSE f + 1

IntMin(a, b) == IF a < b THEN a ELSE b

\* interpn(points, values, xi, bounds_error=False) at one point (row, col):
\* linear interpolation on the pixel grid, "nan" outside of it
Interpn(image, row, col) ==
    IF \/ RLt(row, RZero) \/ RLt(RInt(image.h - 1), row)
       \/ RLt(col, RZero) \/ RLt(RInt(image.w - 1), col)
      THEN NaN
      ELSE LET r0 == IntMin(Floor(row), image.h - 2)
               c0 == IntMin(Floor(col), image.w - 2)
               t == RSub(row, RInt(r0))
               u == RSub(col, RInt(c0))
               w00 == RMul(RSub(ROne, t), RSub(ROne, u))
               w01 == RMul(RSub(ROne, t), u)
               w10 == RMul(t, RSub(ROne, u))
               w11 == RMul(t, u)
               V(r, c, ch) == RInt(image.px[<<r, c>>][ch])
           IN  [ch \in DOMAIN image.px[<<0, 0>>] |->
                   RAdd(RAdd(RMul(w00, V(r0, c0, ch)), RMul(w01, V(r0, c0 + 1, ch))),
                        RAdd(RMul(w10, V(r0 + 1, c0, ch)), RMul(w11, V(r0 + 1, c0 + 1, ch))))]

\* the value np.round(results) stores into the uint8 destination at a masked
\* pixel: the rounded sample, or what the build's cast makes of nan
WarpedPixel(aff, sourceImage, rc, channels) ==
    LET xy == IF aff.inverseMatrix = Undefined THEN Undefined
              ELSE MatVec(aff.inverseMatrix, RInt(rc[2]), RInt(rc[1]))
        sample == IF aff.inverseMatrix = Undefined THEN NaN
                  ELSE Interpn(sourceImage, xy[2], xy[1])
    IN  [ch \in 1..channels |->
            IF sample = NaN THEN fpu.nan ELSE RoundHalfEven(sample[ch])]

\* Affine.transform on a heap of arrays: the array named dst is overwritten at
\* the masked pixels, every other array is left alone
Transform(aff, heap, src, dst) ==
    LET mask == Mask(aff, heap[dst])
        channels == Len(heap[dst].px[<<0, 0>>])
    IN  [heap EXCEPT ![dst].px = [rc \in DOMAIN heap[dst].px |->
            IF rc \in mask THEN WarpedPixel(aff, heap[src], rc, channels)
            ELSE heap[dst].px[rc]]]

---------------------------------------------------------------------------
(* scipy.spatial.Delaunay(points).simplices *)

\* d lies strictly inside the circle through a, b, c
InCircle(a, b, c, d) ==
    LET ax == RSub(a[1], d[1])
        ay == RSub(a[2], d[2])
        bx == RSub(b[1], d[1])
        by == RSub(b[2], d[2])
        cx == RSub(c[1], d[1])
        cy == RSub(c[2], d[2])
        a2 == RAdd(RMul(ax, ax), RMul(ay, ay))
        b2 == RAdd(RMul(bx, bx), RMul(by, by))
        c2 == RAdd(RMul(cx, cx), RMul(cy, cy))
        det == RAdd(RSub(RMul(ax, RSub(RMul(by, c2), RMul(b2, cy))),
                         RMul(ay, RSub(RMul(bx, c2), RMul(b2, cx)))),
                    RMul(a2, RSub(RMul(bx, cy), RMul(by, cx))))
    IN  RSign(det) * RSign(Orient(a, b, c)) > 0

\* index triples (1-based, increasing) of non-degenerate triangles whose
\* circumcircle holds no point of the set in its interior
DelaunayCandidates(pts) ==
    {t \in (1..Len(pts)) \X (1..Len(pts)) \X (1..Len(pts)) :
        /\ t[1] < t[2] /\ t[2] < t[3]
        /\ Orient(pts[t[1]], pts[t[2]], pts[t[3]]) # RZero
        /\ \A m \in 1..Len(pts) : ~InCircle(pts[t[1]], pts[t[2]], pts[t[3]], pts[m])}

\* some edge of triangle s has s on one side and all of triangle t on the other
SeparatedBy(s, t) ==
    \E e \in {<<1, 2, 3>>, <<2, 3, 1>>, <<3, 1, 2>>} :
        LET side == RSign(Orient(s[e[1]], s[e[2]], s[e[3]]))
        IN  \A k \in 1..3 : RSign(Orient(s[e[1]], s[e[2]], t[k])) * side <= 0

\* the interiors of the two triangles meet
Overlap(s, t) == ~SeparatedBy(s, t) /\ ~SeparatedBy(t, s)

Corners(pts, t) == <<pts[t[1]], pts[t[2]], pts[t[3]]>>

\* the Delaunay triangulations of the points: the largest sets of candidate
\* triangles that do not overlap (more than one when four points lie on a
\* circle)
Triangulations(pts) ==
    LET C == DelaunayCandidates(pts)
        Disjoint(S) == \A a \in S, b \in S :
                          a # b => ~Overlap(Corners(pts, a), Corners(pts, b))
    IN  {S \in SUBSET C :
            /\ Disjoint(S)
            /\ \A t \in C \ S : \E a \in S : Overlap(Corners(pts, a), Corners(pts, t))}

RECURSIVE Orderings(_)
\* the sequences that list every element of S once
Orderings(S) ==
    IF S = {} THEN {<<>>}
    ELSE UNION {{<<x>> \o q : q \in Orderings(S \ {x})} : x \in S}

\* the simplices arrays Delaunay(points) may hold; none when Qhull raises
\* (fewer than three points, or all points on a line)
DelaunaySimplices(points) ==
    IF Len(points.rows) < 3 THEN {}
    ELSE UNION {Orderings(S) : S \in Triangulations(points.rows) \ {{}}}

---------------------------------------------------------------------------
(* class Blender and class ColorBlender *)

\* an intermediate that is the array of the start image itself and not a
\* fresh one
TargetStartAliased == "startImage"

\* the names of the fresh arrays getBlendedImage allocates for the two
\* intermediate images (lines 131-132, 254-255)
TargetStart == "targetStart"
TargetEnd == "targetEnd"

\* Blender.__init__ / ColorBlender.__init__, simplices being what
\* Delaunay(startPoints) computed
BlenderNew(cls, startImage, startPoints, endImage, endPoints, simplices) ==
    IF \/ startImage.type # "ndarray" \/ startPoints.type # "ndarray"
       \/ endImage.type # "ndarray" \/ endPoints.type # "ndarray"
      THEN [state |-> "raised", error |-> "TypeError"]
    ELSE IF simplices = "QhullError"
      THEN [state |-> "raised", error |-> "QhullError"]
    ELSE [state |-> "object",
          class |-> cls,
          startImage |-> startImage,
          startPoints |-> startPoints,
          endImage |-> endImage,
          endPoints |-> endPoints,
          triangles |-> simplices]

\* 1 for Blender ('L' intermediates), 3 for ColorBlender ('RGB')
Channels(cls) == IF cls = "ColorBlender" THEN 3 ELSE 1

\* the three rows of a point array a triangle indexes
TrianglePoints(rows, tri) == <<rows[tri[1]], rows[tri[2]], rows[tri[3]]>>

\* targetPoints = (1 - alpha) * startPoints + alpha * endPoints
TargetPoints(a, sp, ep) ==
    [k \in DOMAIN sp |-> [c \in 1..2 |->
        RAdd(RMul(RSub(ROne, a), sp[k][c]), RMul(a, ep[k][c]))]]

RECURSIVE WarpTriangles(_, _, _, _)
\* the rest of one pass of the loop, once the two Affine constructors have
\* returned a1 and a2 or raised: the two transform calls, then the next pass
TransformTriangle(b, targetPoints, heap, k, a1, a2) ==
    IF a1.state = "raised" THEN [status |-> a1.error]
    ELSE IF a2.state = "raised" THEN [status |-> a2.error]
    ELSE WarpTriangles(b, targetPoints,
            Transform(a2, Transform(a1, heap, "startImage", TargetStart),
                      "endImage", TargetEnd),
            k + 1)

\* the loop over self.triangles.simplices from position k on: the heap after
\* it, or the exception an Affine constructor raised
WarpTriangles(b, targetPoints, heap, k) ==
    IF k > Len(b.triangles) THEN [status |-> "ok", heap |-> heap]
    ELSE TransformTriangle(b, targetPoints, heap, k,
            AffineNew(NdArray(TrianglePoints(b.startPoints.rows, b.triangles[k])),
                      NdArray(TrianglePoints(targetPoints, b.triangles[k]))),
            AffineNew(NdArray(TrianglePoints(b.endPoints.rows, b.triangles[k])),
                      NdArray(TrianglePoints(targetPoints, b.triangles[k]))))

\* ((1 - alpha) * targetStart + alpha * targetEnd).astype('uint8')
CrossDissolve(a, targetStart, targetEnd) ==
    [type |-> "ndarray", h |-> targetStart.h, w |-> targetStart.w,
     px |-> [rc \in DOMAIN targetStart.px |->
        LET s == targetStart.px[rc]
            e == targetEnd.px[rc]
        IN  [ch \in DOMAIN s |->
                Floor(RAdd(RMul(RSub(ROne, a), RInt(s[ch])), RMul(a, RInt(e[ch]))))]]]

\* the end of getBlendedImage, warped being what the loop over the triangles
\* left: the blend of the two intermediate images, or the exception
BlendIntermediates(a, heap0, warped) ==
    IF warped.status # "ok" THEN [status |-> warped.status, heap |-> heap0]
    ELSE IF <<warped.heap[TargetStart].h, warped.heap[TargetStart].w>>
               # <<warped.heap[TargetEnd].h, warped.heap[TargetEnd].w>>
      THEN [status |-> "ValueError", heap |-> warped.heap]
    ELSE [status |-> "ok",
          image |-> CrossDissolve(a, warped.heap[TargetStart], warped.heap[TargetEnd]),
          heap |-> warped.heap]

\* Blender.getBlendedImage / ColorBlender.getBlendedImage: what the call
\* returns or raises, and the arrays the session holds after it
GetBlendedImage(b, a) ==
    LET heap0 == [startImage |-> b.startImage, endImage |-> b.endImage]
        blanks == (TargetStart :> BlankImage(b.startImage.h, b.startImage.w, Channels(b.class)))
                   @@ (TargetEnd :> BlankImage(b.endImage.h, b.endImage.w, Channels(b.class)))
    IN  IF Len(b.startPoints.rows) # Len(b.endPoints.rows)
          THEN [status |-> IF Len(b.endPoints.rows) = 1 THEN "IndexError" ELSE "ValueError",
                heap |-> heap0]
        ELSE BlendIntermediates(a, heap0,
                WarpTriangles(b, TargetPoints(a, b.startPoints.rows, b.endPoints.rows),
                              heap0 @@ blanks, 1))

---------------------------------------------------------------------------
(* Blend sessions on small images *)

\* images are ImageSize x ImageSize pixels
ImageSize == 3
\* alpha is drawn from 0/AlphaDen, 1/AlphaDen, .., AlphaDen/AlphaDen
AlphaDen == 2

Alphas == {Rat(k, AlphaDen) : k \in 0..AlphaDen}

GrayImage(h, w, base, dc, dr) ==
    [type |-> "ndarray", h |-> h, w |-> w,
     px |-> [rc \in Pixels(h, w) |-> <<base + dc * rc[2] + dr * rc[1]>>]]

ColorImage(h, w, base, dc, dr) ==
    [type |-> "ndarray", h |-> h, w |-> w,
     px |-> [rc \in Pixels(h, w) |->
                <<base + dc * rc[2] + dr * rc[1], 5 + rc[2], 100 + rc[1]>>]]

\* <<startImage, endImage>>: two grayscale images, two colour images, and two
\* grayscale images of different shapes; no pixel is 0
ImagePairs ==
    {<<GrayImage(ImageSize, ImageSize, 10, 20, 60), GrayImage(ImageSize, ImageSize, 200, -7, -31)>>,
     <<ColorImage(ImageSize, ImageSize, 10, 20, 60), ColorImage(ImageSize, ImageSize, 200, -7, -31)>>,
     <<GrayImage(ImageSize, ImageSize, 10, 20, 60), GrayImage(ImageSize, ImageSize + 1, 200, -7, -31)>>}

PointsNone == <<>>
PointsPair == <<Point(0, 0), Point(ImageSize - 1, 0)>>
PointsLine == <<Point(0, 0), Point(1, 1), Point(ImageSize - 1, ImageSize - 1)>>
PointsTriangle == <<Point(0, 0), Point(ImageSize - 1, 0), Point(0, ImageSize - 1)>>
PointsTriangleMoved == <<Point(1, 0), Point(ImageSize - 1, 1), Point(0, ImageSize - 1)>>
PointsSquare == <<Point(0, 0), Point(ImageSize - 1, 0), Point(0, ImageSize - 1),
                  Point(ImageSize - 1, ImageSize - 1)>>
PointsSquareIn == <<Point(0, 0), Point(ImageSize - 1, 0), Point(0, ImageSize - 1), Point(1, 1)>>
\* four points whose last one crosses the edge between the first two on its
\* way from PointsFold to PointsFolded
PointsFold == <<Point(0, 0), Point(2, 1), Point(0, 2), Point(2, 0)>>
PointsFolded == <<Point(0, 0), Point(2, 1), Point(0, 2), Point(1, 2)>>

\* <<startPoints, endPoints>>
PointPairs ==
    {<<NdArray(sp), NdArray(ep)>> : <<sp, ep>> \in
        {<<PointsNone, PointsNone>>,
         <<PointsPair, PointsPair>>,
         <<PointsLine, PointsTriangle>>,
         <<PointsTriangle, PointsTriangle>>,
         <<PointsTriangle, PointsTriangleMoved>>,
         <<PointsTriangle, PointsPair>>,
         <<PointsTriangle, PointsLine>>,
         <<PointsTriangle, PointsSquare>>,
         <<PointsSquare, PointsTriangle>>,
         <<PointsSquare, PointsSquare>>,
         <<PointsSquare, PointsSquareIn>>,
         <<PointsFold, PointsFolded>>}}
    \cup {<<[type |-> "list", dtype |-> "float64", rows |-> PointsTriangle],
            NdArray(PointsTriangle)>>}

\* what the build's cast of nan to uint8 gives
FpuNan == {0, 255}

BlendInit ==
    /\ VideoIdle
    /\ AffineIdle
    /\ BlenderIdle
    /\ WarpIdle
    /\ AppIdle
    /\ fpu \in [singular : FpuSingular, nan : FpuNan]

\* Blender(...) or ColorBlender(...), the class chosen by the image as the
\* callers do
NewBlender ==
    /\ blender.state = "none"
    /\ \E im \in ImagePairs, pp \in PointPairs :
          LET cls == IF Len(im[1].px[<<0, 0>>]) = 3 THEN "ColorBlender" ELSE "Blender"
              simplices == IF pp[1].type = "ndarray" THEN DelaunaySimplices(pp[1]) ELSE {}
          IN  \E sx \in IF simplices = {} THEN {"QhullError"} ELSE simplices :
                 blender' = BlenderNew(cls, im[1], pp[1], im[2], pp[2], sx)
    /\ UNCHANGED <<videoVars, fpu, affineVars, returned, repeated, warp, app>>

\* what a call returned: the array, or the exception
Outcome(res) == IF res.status = "ok" THEN [status |-> "ok", image |-> res.image]
                ELSE [status |-> res.status]

\* blender.getBlendedImage(alpha)
CallGetBlendedImage ==
    /\ blender.state = "object"
    /\ \E a \in Alphas :
          \E res \in {GetBlendedImage(blender, a)} :
              /\ blender' = [blender EXCEPT !.startImage = res.heap.startImage,
                                            !.endImage = res.heap.endImage]
              /\ returned' = [x \in (DOMAIN returned) \cup {a} |->
                                IF x = a THEN Outcome(res) ELSE returned[x]]
              /\ repeated' = (repeated \/ a \in DOMAIN returned)
    /\ UNCHANGED <<videoVars, fpu, affineVars, warp, app>>

BlendNext ==
    \/ NewBlender
    \/ CallGetBlendedImage

SpecBlend == BlendInit /\ [][BlendNext]_vars


---------------------------------------------------------------------------
(* Claims about blend sessions *)

\* every sample of image is the sample of reference at the same pixel, up to
\* one unit of rounding
WithinRounding(image, reference) ==
    /\ DOMAIN image.px = DOMAIN reference.px
    /\ \A rc \in DOMAIN image.px : \A ch \in DOMAIN image.px[rc] :
          /\ ch \in DOMAIN reference.px[rc]
          /\ image.px[rc][ch] - reference.px[rc][ch] \in -1..1

\* C6: for every blend session, the image getBlendedImage(0.0) returned equals
\* the start image at every pixel and the image getBlendedImage(1.0) returned
\* equals the end image at every pixel, within rounding, the pixels outside
\* every triangle included
C6_BlendEndpointsReproduceImages ==
    blender.state = "object" =>
        /\ (RZero \in DOMAIN returned /\ returned[RZero].status = "ok")
              => WithinRounding(returned[RZero].image, blender.startImage)
        /\ (ROne \in DOMAIN returned /\ returned[ROne].status = "ok")
              => WithinRounding(returned[ROne].image, blender.endImage)

\* C7: a session object is only ever returned for startPoints and endPoints
\* of equal length, each of at least 3 points; every other construction has
\* raised
C7_SessionPointSetsValidated ==
    blender.state = "object" =>
        /\ Len(blender.startPoints.rows) = Len(blender.endPoints.rows)
        /\ Len(blender.startPoints.rows) >= 3
        /\ Len(blender.endPoints.rows) >= 3

\* C8: getBlendedImage(alpha) is a pure function of the session and alpha: a
\* call leaves startImage, startPoints, endImage, endPoints and the
\* triangulation as they were, and a call with an alpha used before returns
\* (or raises) what the earlier call with that alpha did, whatever calls
\* came in between
C8_GetBlendedImagePure ==
    [][blender.state = "object" =>
          /\ blender' = blender
          /\ \A a \in DOMAIN returned :
                a \in DOMAIN returned' /\ returned'[a] = returned[a]]_vars

\* C8: an alpha has been passed a second time after a call with another
\* alpha, and the calls returned images
C8_Witness ==
    /\ blender.state = "object"
    /\ repeated
    /\ Cardinality(DOMAIN returned) >= 2
    /\ \A a \in DOMAIN returned : returned[a].status = "ok"


\* C11: every sample of an image getBlendedImage(alpha) returned is
\* (1 - alpha) * targetStart + alpha * targetEnd rounded to the nearest
\* integer, targetStart and targetEnd being the two intermediate images of
\* that call
C11_BlendRoundedToNearest ==
    blender.state = "object" =>
        \A a \in DOMAIN returned :
            returned[a].status = "ok" =>
                \E res \in {GetBlendedImage(blender, a)} :
                    \A rc \in DOMAIN returned[a].image.px :
                        \A ch \in DOMAIN returned[a].image.px[rc] :
                            returned[a].image.px[rc][ch] =
                                RoundHalfEven(
                                    RAdd(RMul(RSub(ROne, a),
                                              RInt(res.heap[TargetStart].px[rc][ch])),
                                         RMul(a, RInt(res.heap[TargetEnd].px[rc][ch]))))


---------------------------------------------------------------------------
(* Affine.transform called on arrays of the caller *)

\* the source triangles tried: those of SourceTriangles with a corner at the
\* origin; the source image covers 0..ImageSize-1, so some reach beyond it
WarpSources == {t \in SourceTriangles : t[1] = Point(0, 0)}

\* the destination triangles tried: the destination points in every order
WarpDestinations ==
    {t \in DestinationTriangles : t[1] # t[2] /\ t[2] # t[3] /\ t[1] # t[3]}

\* a destination array that already holds samples, none of them 0 or 255
FilledImage == GrayImage(ImageSize, ImageSize, 77, 1, 3)

\* the arrays passed as destinationImage: an array, and a list of lists
WarpDestinationImages == {FilledImage, [FilledImage EXCEPT !.type = "list"]}

TransformInit ==
    /\ VideoIdle
    /\ AffineIdle
    /\ BlenderIdle
    /\ WarpIdle
    /\ AppIdle
    /\ fpu \in [singular : FpuSingular, nan : FpuNan]

\* Affine(source, destination) has returned an object and the caller holds
\* the two arrays it is about to pass
PrepareTransform ==
    /\ warp.state = "none"
    /\ \E src \in WarpSources, dst \in WarpDestinations, dim \in WarpDestinationImages :
          \E a \in {AffineNew(NdArray(src), NdArray(dst))} :
              /\ a.state = "object"
              /\ warp' = [state |-> "ready",
                          affine |-> a,
                          sourceImage |-> GrayImage(ImageSize, ImageSize, 10, 20, 60),
                          destinationImage |-> dim]
    /\ UNCHANGED <<videoVars, fpu, affineVars, blenderVars, app>>

\* affine.transform(sourceImage, destinationImage)
CallTransform ==
    /\ warp.state = "ready"
    /\ IF warp.sourceImage.type # "ndarray" \/ warp.destinationImage.type # "ndarray"
         THEN warp' = [warp EXCEPT !.state = "TypeError"]
         ELSE \E heap \in {Transform(warp.affine,
                                     [sourceImage |-> warp.sourceImage,
                                      destinationImage |-> warp.destinationImage],
                                     "sourceImage", "destinationImage")} :
                 warp' = [state |-> "returned",
                          affine |-> warp.affine,
                          sourceImage |-> heap.sourceImage,
                          destinationImage |-> heap.destinationImage,
                          before |-> warp.destinationImage]
    /\ UNCHANGED <<videoVars, fpu, affineVars, blenderVars, app>>

TransformNext ==
    \/ PrepareTransform
    \/ CallTransform

SpecTransform == TransformInit /\ [][TransformNext]_vars

\* the inverse-mapped source coordinate of destination pixel rc lies outside
\* the source image
OutOfBounds(aff, sourceImage, rc) ==
    \/ aff.inverseMatrix = Undefined
    \/ \E xy \in {MatVec(aff.inverseMatrix, RInt(rc[2]), RInt(rc[1]))} :
          Interpn(sourceImage, xy[2], xy[1]) = NaN

\* C12: after Affine.transform has returned, every masked destination pixel
\* whose inverse-mapped source coordinate lies outside the source image holds
\* the value it had before the call
C12_OutOfBoundsLeftUnwritten ==
    warp.state = "returned" =>
        \A rc \in Mask(warp.affine, warp.before) :
            OutOfBounds(warp.affine, warp.sourceImage, rc) =>
                warp.destinationImage.px[rc] = warp.before.px[rc]


\* the set of the elements of sequence q
Range(q) == {q[k] : k \in DOMAIN q}

\* C13: the two intermediate images of a getBlendedImage call do not depend
\* on the order in which the triangles are warped: the loop run over any
\* ordering of the same triangles leaves the same targetStart and targetEnd
C13_WarpOrderIndependent ==
    blender.state = "object" =>
        \A a \in DOMAIN returned :
            returned[a].status = "ok" =>
                \E res \in {GetBlendedImage(blender, a)} :
                    \A o \in Orderings(Range(blender.triangles)) :
                        \E other \in {GetBlendedImage([blender EXCEPT !.triangles = o], a)} :
                            /\ other.status = "ok"
                            /\ other.heap[TargetStart] = res.heap[TargetStart]
                            /\ other.heap[TargetEnd] = res.heap[TargetEnd]


---------------------------------------------------------------------------
(* MorphingApp.py: the window MorphingConsumer and its event handlers.
   app is the window object: one field per attribute the handlers assign,
   the enabled/checked flags of the widgets they switch, the point files
   beside the images on disk, and what the last event did.  BlendImages and
   DragAlpha assign only self.alpha and the scene of the blend view, which no
   handler below reads; the items of the scenes (ellipses, triangle lines)
   are not part of app; a cancelled file dialog returns at once. *)

\* the point arrays and point files hold at most MaxPoints rows
MaxPoints == 4

\* Python's None, for the pending points
None == <<>>
\* Python's None, for the image arrays
NoImage == [type |-> "NoneType"]

\* a float64 array of shape (Len(rows), 2) when ndim = 2; of shape (2,) or
\* (0,) when ndim = 1, rows holding the one line read or nothing
PointArray(ndim, rows) ==
    [type |-> "ndarray", dtype |-> "float64", rows |-> rows, ndim |-> ndim]

\* the values np.empty(shape=(1, 2)) may hold in its single row
EmptyRows == {Point(0, 0), Point(1, 1)}

\* the image files the dialog offers, and np.array(Image.open(f)) of each:
\* a grayscale image (two axes) and an RGB image (three)
ImageFiles == {"gray.png", "color.png"}
ImageArray(f) == [type |-> "ndarray", ndim |-> IF f = "color.png" THEN 3 ELSE 2]

\* a point file: absent, or its lines
NoFile == [exists |-> FALSE]
PointFile(lines) == [exists |-> TRUE, lines |-> lines]
PointFiles == {NoFile, PointFile(<<Point(1, 1)>>), PointFile(PointsPair), PointFile(PointsTriangle)}

\* the scene positions a click on an image view may map to
ClickPoints == {Point(ImageSize - 1, ImageSize - 1)}

\* MorphingConsumer.__init__ followed by InitialState
AppInit ==
    /\ VideoIdle
    /\ AffineIdle
    /\ BlenderIdle
    /\ WarpIdle
    /\ fpu = [singular |-> "detected", nan |-> 0]
    /\ \E g1 \in EmptyRows, g2 \in EmptyRows, disk \in [ImageFiles -> PointFiles] :
          app = [state |-> "window",
                 startLoaded |-> FALSE,
                 endLoaded |-> FALSE,
                 startImageArray |-> NoImage,
                 endImageArray |-> NoImage,
                 startPoints |-> PointArray(2, <<g1>>),
                 endPoints |-> PointArray(2, <<g2>>),
                 currentStartPoint |-> None,
                 currentEndPoint |-> None,
                 startPointFilePath |-> "",
                 endPointFilePath |-> "",
                 blender |-> [state |-> "none"],
                 alphaSlider |-> FALSE,
                 blendButton |-> FALSE,
                 trianglesCheckBox |-> FALSE,
                 trianglesChecked |-> FALSE,
                 disk |-> disk,
                 pointPairAdded |-> FALSE,
                 construction |-> "none",
                 raised |-> ""]

\* an event arrives: nothing of the previous one is pending
Event(w) ==
    [w EXCEPT !.pointPairAdded = FALSE, !.raised = ""]

\* np.loadtxt(path) of an existing file: one row per line from two lines on,
\* a one-dimensional array for a single line or none
Loadtxt(file) ==
    IF Len(file.lines) >= 2 THEN PointArray(2, file.lines)
    ELSE PointArray(1, file.lines)

\* the simplices Delaunay(startPoints) may compute, in one order each (the
\* window draws every simplex and keeps no order); ValueError for an array
\* that is not two-dimensional, QhullError when there is no triangle
AppSimplices(points) ==
    IF points.ndim # 2 \/ Triangulations(points.rows) \ {{}} = {}
      THEN {"QhullError"}
    ELSE {CHOOSE o \in Orderings(S) : TRUE : S \in Triangulations(points.rows) \ {{}}}

\* the try block of IsLoaded and of PointPairAdded: ColorBlender for an image
\* array with three axes, Blender otherwise, then both widgets enabled; the
\* except clause disables them in PointPairAdded and is "pass" in IsLoaded
TryBlender(w, disableOnError) ==
    {IF b.state = "object"
       THEN [w EXCEPT !.blender = b, !.trianglesCheckBox = TRUE,
                      !.blendButton = TRUE, !.construction = "ok"]
     ELSE IF disableOnError
       THEN [w EXCEPT !.trianglesCheckBox = FALSE, !.blendButton = FALSE,
                      !.construction = "failed"]
     ELSE [w EXCEPT !.construction = "failed"] :
        b \in {BlenderNew(IF w.startImageArray.ndim = 3 THEN "ColorBlender" ELSE "Blender",
                          w.startImageArray, w.startPoints,
                          w.endImageArray, w.endPoints, sx) :
                  sx \in AppSimplices(w.startPoints)}}

\* IsLoaded: the windows it may leave
IsLoaded(w) ==
    IF w.startLoaded /\ w.endLoaded
      THEN TryBlender([w EXCEPT !.alphaSlider = TRUE], FALSE)
    ELSE {w}

\* some simplex of the blender names a row that points does not have
RowMissing(b, points) ==
    \E k \in DOMAIN b.triangles : \E c \in 1..3 :
        points.ndim # 2 \/ b.triangles[k][c] > Len(points.rows)

\* DrawDelaunay: the lines of every simplex added to both views when the box
\* is checked, which reads the rows the simplex names; the lines removed when
\* it is not
DrawDelaunay(w) ==
    IF ~w.trianglesChecked THEN w
    ELSE IF w.blender.state # "object" THEN [w EXCEPT !.raised = "AttributeError"]
    ELSE IF RowMissing(w.blender, w.startPoints) \/ RowMissing(w.blender, w.endPoints)
      THEN [w EXCEPT !.raised = "IndexError"]
    ELSE w

\* np.savetxt of both point arrays, then the pending points cleared
SaveAndClear(w) ==
    IF w.raised # "" THEN w
    ELSE [w EXCEPT !.disk = [f \in ImageFiles |->
                                IF f = w.endPointFilePath THEN PointFile(w.endPoints.rows)
                                ELSE IF f = w.startPointFilePath THEN PointFile(w.startPoints.rows)
                                ELSE w.disk[f]],
                   !.currentStartPoint = None,
                   !.currentEndPoint = None]

\* the triangles redrawn when the box is checked
Redraw(w) ==
    IF w.trianglesChecked
      THEN DrawDelaunay([DrawDelaunay([w EXCEPT !.trianglesChecked = FALSE])
                            EXCEPT !.trianglesChecked = TRUE])
    ELSE w

\* PointPairAdded: the windows it may leave; np.append(..., axis=0) raises
\* ValueError on a one-dimensional array
PointPairAdded(w) ==
    IF w.startPoints.ndim # 2
      THEN {[w EXCEPT !.pointPairAdded = TRUE, !.raised = "ValueError"]}
    ELSE IF w.endPoints.ndim # 2
      THEN {[w EXCEPT !.pointPairAdded = TRUE, !.raised = "ValueError",
                      !.startPoints.rows = Append(@, w.currentStartPoint)]}
    ELSE {SaveAndClear(Redraw(t)) :
            t \in TryBlender([w EXCEPT !.pointPairAdded = TRUE,
                                       !.startPoints.rows = Append(@, w.currentStartPoint),
                                       !.endPoints.rows = Append(@, w.currentEndPoint)],
                             TRUE)}

\* MorphingConsumer.mousePressEvent
MousePressEvent(w) ==
    IF w.currentStartPoint # None /\ w.currentEndPoint # None
      THEN PointPairAdded(w)
    ELSE {w}

\* the rows are below their bound, so that a pair may still be added
Room(w) == Len(w.startPoints.rows) < MaxPoints /\ Len(w.endPoints.rows) < MaxPoints

\* a click on the window outside the two image views
ClickWindow ==
    /\ app.state = "window"
    /\ Room(app)
    /\ app' \in MousePressEvent(Event(app))
    /\ UNCHANGED <<videoVars, fpu, affineVars, blenderVars, warp>>

\* a click on the start image view
DrawPointStart ==
    /\ app.state = "window"
    /\ Room(app)
    /\ \E p \in ClickPoints :
          \E w \in MousePressEvent(Event(app)) :
              app' = IF /\ w.raised = ""
                        /\ w.endImageArray # NoImage
                        /\ (w.currentStartPoint = None \/ w.currentEndPoint # None)
                       THEN [w EXCEPT !.currentStartPoint = p]
                     ELSE w
    /\ UNCHANGED <<videoVars, fpu, affineVars, blenderVars, warp>>

\* a click on the end image view
DrawPointEnd ==
    /\ app.state = "window"
    /\ Room(app)
    /\ \E p \in ClickPoints :
          \E w \in {Event(app)} :
              app' = IF /\ w.startImageArray # NoImage
                        /\ w.currentStartPoint # None
                        /\ w.currentEndPoint = None
                       THEN [w EXCEPT !.currentEndPoint = p]
                     ELSE w
    /\ UNCHANGED <<videoVars, fpu, affineVars, blenderVars, warp>>

\* keyPressEvent with the Backspace key
KeyPressBackspace ==
    /\ app.state = "window"
    /\ \E w \in {Event(app)} :
          app' = IF w.currentStartPoint # None /\ w.currentEndPoint # None
                   THEN [w EXCEPT !.currentEndPoint = None]
                 ELSE IF w.currentStartPoint # None
                   THEN [w EXCEPT !.currentStartPoint = None]
                 ELSE w
    /\ UNCHANGED <<videoVars, fpu, affineVars, blenderVars, warp>>

\* a click on the enabled triangles check box: the box toggles, then DrawDelaunay
ClickTrianglesCheckBox ==
    /\ app.state = "window"
    /\ app.trianglesCheckBox
    /\ app' = DrawDelaunay([Event(app)
                               EXCEPT !.trianglesChecked = ~app.trianglesChecked])
    /\ UNCHANGED <<videoVars, fpu, affineVars, blenderVars, warp>>

\* LoadStartImage with image file f chosen in the dialog
LoadStartImage ==
    /\ app.state = "window"
    /\ \E f \in ImageFiles :
          app' \in IsLoaded([Event(app) EXCEPT
                                !.startImageArray = ImageArray(f),
                                !.startLoaded = TRUE,
                                !.startPointFilePath = f,
                                !.startPoints = IF app.disk[f].exists
                                                  THEN Loadtxt(app.disk[f]) ELSE @])
    /\ UNCHANGED <<videoVars, fpu, affineVars, blenderVars, warp>>

\* LoadEndImage with image file f chosen in the dialog
LoadEndImage ==
    /\ app.state = "window"
    /\ \E f \in ImageFiles :
          app' \in IsLoaded([Event(app) EXCEPT
                                !.endImageArray = ImageArray(f),
                                !.endLoaded = TRUE,
                                !.endPointFilePath = f,
                                !.endPoints = IF app.disk[f].exists
                                                THEN Loadtxt(app.disk[f]) ELSE @])
    /\ UNCHANGED <<videoVars, fpu, affineVars, blenderVars, warp>>

AppNext ==
    \/ LoadStartImage
    \/ LoadEndImage
    \/ DrawPointStart
    \/ DrawPointEnd
    \/ KeyPressBackspace
    \/ ClickWindow
    \/ ClickTrianglesCheckBox

SpecApp == AppInit /\ [][AppNext]_vars


---------------------------------------------------------------------------
(* Claims about the window *)

\* C14: the start and end point sets of the window have the same number of
\* points; in particular, every blender the window holds was constructed
\* from a start set and an end set of the same size
C14_BlenderPointSetsSameSize ==
    (app.state = "window" /\ app.blender.state = "object") =>
        Len(app.blender.startPoints.rows) = Len(app.blender.endPoints.rows)

\* C15: when the most recent attempt to construct the blender (in IsLoaded or
\* in PointPairAdded) failed, the blend button and the triangles check box
\* are disabled
C15_FailedConstructionDisables ==
    (app.state = "window" /\ app.construction = "failed") =>
        ~app.blendButton /\ ~app.trianglesCheckBox

\* C16: an event in which PointPairAdded runs finds both pending points set,
\* appends the pending start point to the start set and the pending end
\* point to the end set, and leaves no pending end point; and at all times a
\* pending end point exists only if a pending start point does
C16_PointPairAddedAppendsAndClears ==
    [][/\ app'.state = "window" =>
            (app'.currentEndPoint # None => app'.currentStartPoint # None)
       /\ (app.state = "window" /\ app'.pointPairAdded) =>
            /\ app.currentStartPoint # None
            /\ app.currentEndPoint # None
            /\ app'.startPoints.rows = Append(app.startPoints.rows, app.currentStartPoint)
            /\ app'.endPoints.rows = Append(app.endPoints.rows, app.currentEndPoint)
            /\ app'.currentEndPoint = None]_vars

=============================================================================
